---- MODULE Spec2Model ----
(***************************************************************************)
(* USASpending_search_term.py: the export-job fetcher (submit, poll with   *)
(* backoff, download, unzip), the orchestrator loop over the award-type    *)
(* groups, and clean_and_filter (classification, liveness filter, keyword  *)
(* filter).                                                                *)
(*                                                                         *)
(* Text is a tuple of one-character strings.  A CSV cell is a record       *)
(* [na, s]: na is pandas' NaN (read_csv turns an empty field into NaN).    *)
(* A date cell is a record [k, day, tod]; a timestamp is an integer number *)
(* of ticks, TicksPerDay ticks to a day.                                   *)
(***************************************************************************)
EXTENDS Integers, Sequences, FiniteSets, TLC

\* ------------------------------------------------------------------------
\*  Bounds of the model
\* ------------------------------------------------------------------------
\* status polls of one job that are counted and logged (the loop itself is
\* not bounded: the counter saturates)
MaxPolls == 8
\* rows of a frame handed directly to clean_and_filter
MaxRows == 2

\* ------------------------------------------------------------------------
\*  Program constants
\* ------------------------------------------------------------------------
InitialDelay == 1
MaxDelay == 30

None == "<None>"

type_filters ==
  << [atype |-> "contract",     codes |-> <<"A", "B", "C", "D">>],
     [atype |-> "contract_idv", codes |-> <<"IDV_A", "IDV_B", "IDV_B_A", "IDV_B_B",
                                            "IDV_B_C", "IDV_C", "IDV_D", "IDV_E">>],
     [atype |-> "grant",        codes |-> <<"02", "03", "04", "05">>] >>

total_types == Len(type_filters)

GroupNames == {type_filters[i].atype : i \in 1..total_types}

\* ------------------------------------------------------------------------
\*  Python and pandas primitives
\* ------------------------------------------------------------------------
Min(a, b) == IF a < b THEN a ELSE b

\* Python truthiness of an optional JSON string: None and "" are falsy
Truthy(v) == v # None /\ v # ""

\* Python "a or b"
PyOr(a, b) == IF Truthy(a) THEN a ELSE b

LowerLetters == <<"a","b","c","d","e","f","g","h","i","j","k","l","m",
                  "n","o","p","q","r","s","t","u","v","w","x","y","z">>
UpperLetters == <<"A","B","C","D","E","F","G","H","I","J","K","L","M",
                  "N","O","P","Q","R","S","T","U","V","W","X","Y","Z">>

UpperChar(c) ==
  IF \E i \in 1..26 : LowerLetters[i] = c
  THEN UpperLetters[CHOOSE i \in 1..26 : LowerLetters[i] = c]
  ELSE c

LowerChar(c) ==
  IF \E i \in 1..26 : UpperLetters[i] = c
  THEN LowerLetters[CHOOSE i \in 1..26 : UpperLetters[i] = c]
  ELSE c

\* str.upper() and str.lower()
Upper(s) == [i \in 1..Len(s) |-> UpperChar(s[i])]
Lower(s) == [i \in 1..Len(s) |-> LowerChar(s[i])]

\* str.endswith(suffix)
EndsWith(s, suffix) ==
  /\ Len(s) >= Len(suffix)
  /\ \A i \in 1..Len(suffix) : s[Len(s) - Len(suffix) + i] = suffix[i]

NaN == [na |-> TRUE, s |-> <<>>]
Str(s) == [na |-> FALSE, s |-> s]

\* df[name]: one column of a frame
Column(df, name) == [i \in 1..Len(df) |-> df[i][name]]

\* the dtype of a text column as read_csv and concat leave it: float64 when
\* every cell is NaN, object as soon as one cell holds text
Dtype(col) ==
  IF Len(col) > 0 /\ \A i \in 1..Len(col) : col[i].na THEN "float64" ELSE "object"

\* Series.str raises AttributeError ("Can only use .str accessor with string
\* values") on a column that is not of object dtype
StrAccessorRaises(dtype) == dtype # "object"

\* Series.str.upper().eq(lit) on an object column: NaN compares unequal
StrUpperEq(col, lit) ==
  [i \in 1..Len(col) |-> (~col[i].na) /\ Upper(col[i].s) = lit]

\* Series.notna()
NotNa(col) == [i \in 1..Len(col) |-> ~col[i].na]

\* Series.fillna('').astype(str)
FillNaStr(cell) == IF cell.na THEN <<>> ELSE cell.s

\* ------------------------------------------------------------------------
\*  Keyword input (the sidebar text box)
\* ------------------------------------------------------------------------
RECURSIVE Strip(_)
\* str.strip() for blanks
Strip(s) ==
  IF s = <<>> THEN s
  ELSE IF Head(s) = " " THEN Strip(Tail(s))
  ELSE IF s[Len(s)] = " " THEN Strip(SubSeq(s, 1, Len(s) - 1))
  ELSE s

RECURSIVE SplitComma(_)
\* str.split(',')
SplitComma(s) ==
  IF \E i \in 1..Len(s) : s[i] = ","
  THEN LET i == CHOOSE j \in 1..Len(s) :
                  s[j] = "," /\ \A m \in 1..(j - 1) : s[m] # ","
       IN <<SubSeq(s, 1, i - 1)>> \o SplitComma(SubSeq(s, i + 1, Len(s)))
  ELSE <<s>>

IsNonEmptyText(s) == s # <<>>

\* keywords = [k.strip() for k in keywords_input.split(',') if k.strip()]
ParseKeywords(keywords_input) ==
  LET parts == SplitComma(keywords_input)
      stripped == [i \in 1..Len(parts) |-> Strip(parts[i])]
  IN SelectSeq(stripped, IsNonEmptyText)

\* ------------------------------------------------------------------------
\*  clean_and_filter
\* ------------------------------------------------------------------------
\* np.select(condlist, choicelist, default): the first true condition wins
NpSelect(condlist, choicelist, default) ==
  IF \E i \in 1..Len(condlist) : condlist[i]
  THEN choicelist[CHOOSE i \in 1..Len(condlist) :
                    condlist[i] /\ \A j \in 1..(i - 1) : ~condlist[j]]
  ELSE default

\* the award_type column np.select derives from the two condition columns
ClassifyColumn(df) ==
  LET flag == Column(df, "award_or_idv_flag")
      hasPiid == NotNa(Column(df, "award_id_piid"))
      isIdv == StrUpperEq(flag, <<"I","D","V">>)
      isAward == StrUpperEq(flag, <<"A","W","A","R","D">>)
  IN [i \in 1..Len(df) |->
        NpSelect(<< isIdv[i] /\ hasPiid[i], isAward[i] /\ hasPiid[i] >>,
                 <<"contract_idv", "contract">>,
                 "grant")]

\* line 168 raises when the flag column holds no text at all
FlagRaises(df) == StrAccessorRaises(Dtype(Column(df, "award_or_idv_flag")))

NoDate == [ok |-> FALSE, day |-> 0, tod |-> 0]

\* parse_or_none: NaN and blank text give None, text dateutil rejects gives
\* None, a date without a time of day is parsed to midnight of its day
parse_or_none(val) ==
  IF val.k = "nan" \/ val.k = "blank" THEN NoDate
  ELSE IF val.k = "date" THEN [ok |-> TRUE, day |-> val.day, tod |-> 0]
  ELSE IF val.k = "datetime" THEN [ok |-> TRUE, day |-> val.day, tod |-> val.tod]
  ELSE NoDate

\* variant: >= in place of >
After_OrEqual(parsed, now) ==
  /\ parsed.ok
  /\ \/ parsed.day > now.day
     \/ parsed.day = now.day /\ parsed.tod >= now.tod

\* parsed > today: a comparison with a missing date is False
After(parsed, now) ==
  /\ parsed.ok
  /\ \/ parsed.day > now.day
     \/ parsed.day = now.day /\ parsed.tod > now.tod

\* the three-way mask of the .loc selection, for a classified and parsed row
IsLive(row, now) ==
  \/ row.award_type = "contract"
       /\ After(row.period_of_performance_potential_end_date, now)
  \/ row.award_type = "grant"
       /\ After(row.period_of_performance_current_end_date, now)
  \/ row.award_type = "contract_idv"
       /\ After(row.ordering_period_end_date, now)

\* variant: the keyword is used as a pattern without re.escape ('.' matches
\* any character)
ReEscape_Unescaped(k) == [i \in 1..Len(k) |-> [lit |-> k[i] # ".", c |-> k[i]]]

\* re.escape(k): every character of k stands for itself
ReEscape(k) == [i \in 1..Len(k) |-> [lit |-> TRUE, c |-> k[i]]]

\* "|".join(re.escape(k) for k in keywords): the alternatives of the pattern
Pattern(kws) == [i \in 1..Len(kws) |-> ReEscape(kws[i])]

TokenMatches(tok, ch, ignorecase) ==
  IF ~tok.lit THEN TRUE
  ELSE IF ignorecase THEN LowerChar(tok.c) = LowerChar(ch)
  ELSE tok.c = ch

\* re.search of one alternative in text
AltFound(alt, text, ignorecase) ==
  \E off \in 0..(Len(text) - Len(alt)) :
     \A i \in 1..Len(alt) : TokenMatches(alt[i], text[off + i], ignorecase)

\* re.search of the pattern in one cell, case=False, na=False
CellContains(cell, pattern) ==
  IF cell.na THEN FALSE
  ELSE \E a \in 1..Len(pattern) : AltFound(pattern[a], cell.s, TRUE)

\* Series.str.contains(pattern, case=False, na=False) on an object column
StrContains(col, pattern) ==
  [i \in 1..Len(col) |-> CellContains(col[i], pattern)]

\* df.loc[mask]: the rows whose mask is True, in order, labels kept
Loc(df, mask) ==
  LET marked == [i \in 1..Len(df) |-> [row |-> df[i], keep |-> mask[i]]]
      isKept(m) == m.keep
      kept == SelectSeq(marked, isKept)
  IN [i \in 1..Len(kept) |-> kept[i].row]

\* award_type is overwritten by the derived column, the three date columns
\* by their parsed values
ClassifiedFrame(df) ==
  LET types == ClassifyColumn(df)
  IN [i \in 1..Len(df) |->
        [df[i] EXCEPT
           !.award_type = types[i],
           !.period_of_performance_potential_end_date = parse_or_none(@),
           !.period_of_performance_current_end_date = parse_or_none(@),
           !.ordering_period_end_date = parse_or_none(@)]]

\* piid_or_fain is added, the two raw id columns are dropped
MergeIds(row) ==
  [ix |-> row.ix,
   award_type |-> row.award_type,
   award_or_idv_flag |-> row.award_or_idv_flag,
   period_of_performance_potential_end_date |->
       row.period_of_performance_potential_end_date,
   period_of_performance_current_end_date |->
       row.period_of_performance_current_end_date,
   ordering_period_end_date |-> row.ordering_period_end_date,
   prime_award_base_transaction_description |->
       row.prime_award_base_transaction_description,
   piid_or_fain |-> FillNaStr(row.award_id_fain) \o FillNaStr(row.award_id_piid)]

LivenessFilter(df, now) ==
  Loc(df, [i \in 1..Len(df) |-> IsLive(df[i], now)])

\* lines 200-201 raise when a keyword list is given and the description
\* column holds no text at all; .copy() and .loc keep the dtype the column
\* has in the frame clean_and_filter was given
KeywordRaises(df, kws) ==
  /\ kws # <<>>
  /\ StrAccessorRaises(Dtype(Column(df, "prime_award_base_transaction_description")))

KeywordFilter(df, kws) ==
  IF kws # <<>>
  THEN Loc(df, StrContains(Column(df, "prime_award_base_transaction_description"),
                           Pattern(kws)))
  ELSE df

\* the frame after the .loc selection of the future-relevant records
\* (each intermediate frame is bound to its value, so it is computed once)
LiveFrame(df, now) ==
  CHOOSE liveDf \in { LivenessFilter(c, now) : c \in { ClassifiedFrame(df) } } : TRUE

\* the frame clean_and_filter returns when neither .str access raises
clean_and_filter(df, kws, now) ==
  CHOOSE result \in
    { [i \in 1..Len(matched) |-> MergeIds(matched[i])] :
        matched \in { KeywordFilter(liveDf, kws) :
                        liveDf \in { LiveFrame(df, now) } } } : TRUE

\* ------------------------------------------------------------------------
\*  Frames
\* ------------------------------------------------------------------------
\* pd.read_csv: the rows of the entry, under a fresh RangeIndex 0..n-1
ReadCsv(rows) ==
  [i \in 1..Len(rows) |->
     [ix |-> i - 1,
      award_or_idv_flag |-> rows[i].award_or_idv_flag,
      award_id_piid |-> rows[i].award_id_piid,
      award_id_fain |-> rows[i].award_id_fain,
      period_of_performance_potential_end_date |->
          rows[i].period_of_performance_potential_end_date,
      period_of_performance_current_end_date |->
          rows[i].period_of_performance_current_end_date,
      ordering_period_end_date |-> rows[i].ordering_period_end_date,
      prime_award_base_transaction_description |->
          rows[i].prime_award_base_transaction_description]]

\* variant: the suffix is tested without its dot
IsCsvName_NoDot(name) == EndsWith(Lower(name), <<"c", "s", "v">>)

\* name.lower().endswith('.csv')
IsCsvName(name) == EndsWith(Lower(name), <<".", "c", "s", "v">>)

\* the loop over zf.namelist(): the first CSV entry is read and returned,
\* an archive without one gives pd.DataFrame()
ExtractFrame(archive) ==
  IF \E i \in 1..Len(archive) : IsCsvName(archive[i].name)
  THEN ReadCsv(archive[CHOOSE i \in 1..Len(archive) :
                         /\ IsCsvName(archive[i].name)
                         /\ \A j \in 1..(i - 1) : ~IsCsvName(archive[j].name)].rows)
  ELSE <<>>

\* df.empty
IsEmptyFrame(df) == Len(df) = 0

\* df['award_type'] = atype
TagRows(df, atype) ==
  [i \in 1..Len(df) |->
     [ix |-> df[i].ix,
      award_type |-> atype,
      award_or_idv_flag |-> df[i].award_or_idv_flag,
      award_id_piid |-> df[i].award_id_piid,
      award_id_fain |-> df[i].award_id_fain,
      period_of_performance_potential_end_date |->
          df[i].period_of_performance_potential_end_date,
      period_of_performance_current_end_date |->
          df[i].period_of_performance_current_end_date,
      ordering_period_end_date |-> df[i].ordering_period_end_date,
      prime_award_base_transaction_description |->
          df[i].prime_award_base_transaction_description]]

RECURSIVE Flatten(_)
Flatten(frames) ==
  IF frames = <<>> THEN <<>> ELSE Head(frames) \o Flatten(Tail(frames))

\* pd.concat(data_frames, ignore_index=True): the rows in order, renumbered
Concat(frames) ==
  LET rows == Flatten(frames)
  IN [i \in 1..Len(rows) |-> [rows[i] EXCEPT !.ix = i - 1]]

\* ------------------------------------------------------------------------
\*  download_awards: the poll loop's decisions
\* ------------------------------------------------------------------------
\* variant: the two fields are consulted in the other order
ResolveUrl_FileUrlFirst(r) == PyOr(r.file_url, r.url)

\* status_resp.json().get('url') or status_resp.json().get('file_url')
ResolveUrl(r) == PyOr(r.url, r.file_url)

\* variant: the loop is left on 'finished' whether or not a URL came with it
IsBreak_NoUrlCheck(r) == r.status = "finished"

\* status == 'finished' and download_url: the break
IsBreak(r) == r.status = "finished" /\ Truthy(ResolveUrl(r))

\* variant: the status is compared with another word than the API's 'failed'
IsJobFailed_WrongLiteral(r) == r.status # "finished" /\ r.status = "error"

\* status == 'failed' (the elif: reached only when status is not 'finished')
IsJobFailed(r) == r.status # "finished" /\ r.status = "failed"

\* variant: the delay doubles without the cap
NextDelay_NoCap(d) == d * 2

\* delay = min(delay * 2, 30)
NextDelay(d) == Min(d * 2, MaxDelay)

\* ------------------------------------------------------------------------
\*  Inputs: what the API, the archive and the user can supply
\* ------------------------------------------------------------------------
Flags == { NaN, Str(<<"I","D","V">>), Str(<<"i","d","v">>),
           Str(<<"A","w","a","r","d">>), Str(<<"X">>) }
Piids == { NaN, Str(<<"P","1">>) }
Fains == { NaN, Str(<<"F","1">>) }
Descs == { NaN, Str(<<"A","l","p">>), Str(<<"b","c","d">>), Str(<<"x","y">>) }

NanDate == [k |-> "nan", day |-> 0, tod |-> 0]
BlankDate == [k |-> "blank", day |-> 0, tod |-> 0]
GarbageDate == [k |-> "garbage", day |-> 0, tod |-> 0]
DateText(d) == [k |-> "date", day |-> d, tod |-> 0]
DateTimeText(d, t) == [k |-> "datetime", day |-> d, tod |-> t]

\* the run starts on day 1, one tick after midnight
Now == [day |-> 1, tod |-> 1]

DateCells == { NanDate, BlankDate, GarbageDate,
               DateText(0), DateTimeText(1, 1), DateText(2) }

CsvRow(flag, piid, fain, pot, cur, ord, desc) ==
  [award_or_idv_flag |-> flag, award_id_piid |-> piid, award_id_fain |-> fain,
   period_of_performance_potential_end_date |-> pot,
   period_of_performance_current_end_date |-> cur,
   ordering_period_end_date |-> ord,
   prime_award_base_transaction_description |-> desc]

RowIdv == CsvRow(Str(<<"i","d","v">>), Str(<<"P","1">>), NaN,
                 DateText(0), NanDate, DateText(2), Str(<<"A","l","p">>))
RowAward == CsvRow(Str(<<"A","w","a","r","d">>), Str(<<"P","1">>), NaN,
                   DateText(2), GarbageDate, BlankDate, Str(<<"b","c","d">>))
RowGrantNow == CsvRow(NaN, NaN, Str(<<"F","1">>),
                      DateText(2), DateTimeText(1, 1), DateText(2), Str(<<"x","y">>))
RowGrantLive == CsvRow(Str(<<"I","D","V">>), NaN, Str(<<"F","1">>),
                       NanDate, DateText(2), NanDate, NaN)

PoolRows == { RowIdv, RowAward, RowGrantNow, RowGrantLive }

Entry(name, rows) == [name |-> name, rows |-> rows]

Archives ==
  { <<>>,
    << Entry(<<"a",".","t","x","t">>, <<>>) >>,
    << Entry(<<"c","s","v">>, <<RowIdv>>) >>,
    << Entry(<<"a",".","t","x","t">>, <<>>), Entry(<<"B",".","C","S","V">>, <<RowIdv>>) >>,
    << Entry(<<"c",".","c","s","v">>, <<RowAward, RowGrantNow>>),
       Entry(<<"d",".","c","s","v">>, <<RowIdv>>) >>,
    << Entry(<<"e",".","c","s","v">>, <<>>) >>,
    << Entry(<<"g",".","c","s","v">>, <<RowGrantLive>>) >>,
    << Entry(<<"h",".","c","s","v">>, <<RowGrantNow>>) >> }

JobIds == <<"job1", "job2", "job3">>

NoResp == [http_ok |-> TRUE, file_name |-> None, status |-> None,
           url |-> None, file_url |-> None, archive |-> <<>>]

SubmitResponses(i) ==
  { [NoResp EXCEPT !.http_ok = FALSE] }
    \cup { [NoResp EXCEPT !.file_name = f] : f \in {None, "", JobIds[i]} }

StatusResponses ==
  { [NoResp EXCEPT !.http_ok = FALSE] }
    \cup { [NoResp EXCEPT !.status = st, !.url = u, !.file_url = f] :
             st \in {"running", "finished", "failed", None},
             u \in {None, "", "u1"}, f \in {None, "u2"} }

DownloadResponses ==
  { [NoResp EXCEPT !.http_ok = FALSE] }
    \cup { [NoResp EXCEPT !.archive = a] : a \in Archives }

KeywordInputs ==
  { <<>>,
    <<"a","l">>,
    <<" ","b",".","d",","," ","X","Y"," ",",",",">> }

\* ------------------------------------------------------------------------
\*  State
\* ------------------------------------------------------------------------
VARIABLES
  pc,            \* where the script is
  idx,           \* 1-based position in type_filters
  keywords,      \* the parsed keyword list
  today,         \* the timestamp captured when the script starts
  resp,          \* the HTTP response last received
  job_id,        \* download_awards: job_id
  delay,         \* download_awards: delay (0 before it is assigned)
  polls,         \* status requests of the current job, counted up to MaxPolls
  download_url,  \* download_awards: download_url
  waits,         \* the first MaxPolls sleeps of the current job, in order
  reqs,          \* the requests of the current job, in order
  df,            \* the frame download_awards returned
  data_frames,   \* the orchestrator's list of tagged frames
  warnings,      \* groups for which "No data" was shown
  error,         \* the exception that ended the run, or None
  combined,      \* the frame handed to clean_and_filter
  classified,    \* clean_and_filter: the frame after classification and parsing
  live,          \* clean_and_filter: the frame after the liveness selection
  filtered       \* the frame clean_and_filter returned

vars == << pc, idx, keywords, today, resp, job_id, delay, polls, download_url,
           waits, reqs, df, data_frames, warnings, error, combined, classified,
           live, filtered >>

jobLocals == << resp, job_id, delay, polls, download_url >>
results == << combined, classified, live, filtered >>

Req(kind, codes, job, url) ==
  [kind |-> kind, codes |-> codes, job |-> job, url |-> url]

Init ==
  /\ pc = "submit"
  /\ idx = 1
  /\ keywords \in { ParseKeywords(t) : t \in KeywordInputs }
  /\ today = Now
  /\ resp = NoResp
  /\ job_id = None
  /\ delay = 0
  /\ polls = 0
  /\ download_url = None
  /\ waits = <<>>
  /\ reqs = <<>>
  /\ df = <<>>
  /\ data_frames = <<>>
  /\ warnings = <<>>
  /\ error = None
  /\ combined = <<>>
  /\ classified = <<>>
  /\ live = <<>>
  /\ filtered = <<>>

\* an exception leaves download_awards, the for loop and the script run
Raise(kind) ==
  /\ error' = kind
  /\ pc' = "aborted"

\* session.post(DOWNLOAD_URL, json=payload)
Submit ==
  /\ pc = "submit"
  /\ reqs' = << Req("submit", type_filters[idx].codes, None, None) >>
  /\ waits' = <<>>
  /\ resp' \in SubmitResponses(idx)
  /\ pc' = "submitted"
  /\ UNCHANGED << idx, keywords, today, job_id, delay, polls, download_url, df,
                  data_frames, warnings, error, results >>

\* resp.raise_for_status()
SubmitHttpError ==
  /\ pc = "submitted"
  /\ ~resp.http_ok
  /\ Raise("HTTPError")
  /\ UNCHANGED << idx, keywords, today, jobLocals, waits, reqs, df, data_frames,
                  warnings, results >>

\* if not job_id: raise RuntimeError
SubmitMissingJobId ==
  /\ pc = "submitted"
  /\ resp.http_ok
  /\ ~Truthy(resp.file_name)
  /\ Raise("MissingJobId")
  /\ UNCHANGED << idx, keywords, today, jobLocals, waits, reqs, df, data_frames,
                  warnings, results >>

SubmitOk ==
  /\ pc = "submitted"
  /\ resp.http_ok
  /\ Truthy(resp.file_name)
  /\ job_id' = resp.file_name
  /\ delay' = InitialDelay
  /\ pc' = "poll"
  /\ UNCHANGED << idx, keywords, today, resp, polls, download_url, waits, reqs, df,
                  data_frames, warnings, error, results >>

\* status_resp = session.get(status_url)
PollSend ==
  /\ pc = "poll"
  /\ resp' \in StatusResponses
  /\ reqs' = IF polls < MaxPolls
             THEN Append(reqs, Req("status", <<>>, job_id, None))
             ELSE reqs
  /\ polls' = Min(polls + 1, MaxPolls)
  /\ pc' = "got_status"
  /\ UNCHANGED << idx, keywords, today, job_id, delay, download_url, waits, df,
                  data_frames, warnings, error, results >>

\* variant: a status request that fails is tried again
PollHttpError_Retry ==
  /\ pc = "got_status"
  /\ ~resp.http_ok
  /\ pc' = "poll"
  /\ UNCHANGED << idx, keywords, today, jobLocals, waits, reqs, df, data_frames,
                  warnings, error, results >>

\* status_resp.raise_for_status()
PollHttpError ==
  /\ pc = "got_status"
  /\ ~resp.http_ok
  /\ Raise("HTTPError")
  /\ UNCHANGED << idx, keywords, today, jobLocals, waits, reqs, df, data_frames,
                  warnings, results >>

\* status 'finished' with a download URL: break
PollFinished ==
  /\ pc = "got_status"
  /\ resp.http_ok
  /\ IsBreak(resp)
  /\ download_url' = ResolveUrl(resp)
  /\ pc' = "download"
  /\ UNCHANGED << idx, keywords, today, resp, job_id, delay, polls, waits, reqs, df,
                  data_frames, warnings, error, results >>

\* status 'failed': raise RuntimeError
PollFailed ==
  /\ pc = "got_status"
  /\ resp.http_ok
  /\ IsJobFailed(resp)
  /\ Raise("JobFailed")
  /\ UNCHANGED << idx, keywords, today, jobLocals, waits, reqs, df, data_frames,
                  warnings, results >>

\* anything else: time.sleep(delay), then the delay doubles up to the cap
PollRetry ==
  /\ pc = "got_status"
  /\ resp.http_ok
  /\ ~IsBreak(resp)
  /\ ~IsJobFailed(resp)
  /\ download_url' = IF resp.status = "finished" THEN ResolveUrl(resp)
                     ELSE download_url
  /\ waits' = IF Len(waits) < MaxPolls THEN Append(waits, delay) ELSE waits
  /\ delay' = NextDelay(delay)
  /\ pc' = "poll"
  /\ UNCHANGED << idx, keywords, today, resp, job_id, polls, reqs, df, data_frames,
                  warnings, error, results >>

\* zip_resp = session.get(download_url)
DownloadSend ==
  /\ pc = "download"
  /\ reqs' = Append(reqs, Req("download", <<>>, None, download_url))
  /\ resp' \in DownloadResponses
  /\ pc' = "downloaded"
  /\ UNCHANGED << idx, keywords, today, job_id, delay, polls, download_url, waits, df,
                  data_frames, warnings, error, results >>

\* zip_resp.raise_for_status()
DownloadHttpError ==
  /\ pc = "downloaded"
  /\ ~resp.http_ok
  /\ Raise("HTTPError")
  /\ UNCHANGED << idx, keywords, today, jobLocals, waits, reqs, df, data_frames,
                  warnings, results >>

\* the archive is scanned and download_awards returns
Extract ==
  /\ pc = "downloaded"
  /\ resp.http_ok
  /\ df' = ExtractFrame(resp.archive)
  /\ pc' = "returned"
  /\ UNCHANGED << idx, keywords, today, jobLocals, waits, reqs, data_frames,
                  warnings, error, results >>

\* the end of one pass of the for loop; the locals of the call are gone
\* (the last response stays visible until the next request, and df is a
\* variable of the script: it keeps its frame until the next call returns)
NextGroup ==
  /\ pc' = IF idx < total_types THEN "submit" ELSE "combine"
  /\ idx' = IF idx < total_types THEN idx + 1 ELSE idx
  /\ job_id' = None
  /\ delay' = 0
  /\ polls' = 0
  /\ download_url' = None

\* if df.empty: st.sidebar.warning
WarnEmpty ==
  /\ pc = "returned"
  /\ IsEmptyFrame(df)
  /\ warnings' = Append(warnings, type_filters[idx].atype)
  /\ NextGroup
  /\ UNCHANGED << keywords, today, resp, waits, reqs, df, data_frames, error,
                  results >>

\* else: the frame is tagged with the group name (in place) and appended
AppendFrame ==
  /\ pc = "returned"
  /\ ~IsEmptyFrame(df)
  /\ LET tagged == TagRows(df, type_filters[idx].atype)
     IN /\ df' = tagged
        /\ data_frames' = Append(data_frames, tagged)
  /\ NextGroup
  /\ UNCHANGED << keywords, today, resp, waits, reqs, warnings, error, results >>

\* if not data_frames: "No data downloaded for any award type."
NoData ==
  /\ pc = "combine"
  /\ data_frames = <<>>
  /\ pc' = "no_data"
  /\ UNCHANGED << idx, keywords, today, jobLocals, waits, reqs, df, data_frames,
                  warnings, error, results >>

\* combined = pd.concat(data_frames, ignore_index=True)
Combine ==
  /\ pc = "combine"
  /\ data_frames # <<>>
  /\ combined' = Concat(data_frames)
  /\ pc' = "filter"
  /\ UNCHANGED << idx, keywords, today, jobLocals, waits, reqs, df, data_frames,
                  warnings, error, classified, live, filtered >>

\* clean_and_filter raises at line 168: nothing has been derived yet
FilterFlagRaises ==
  /\ pc = "filter"
  /\ FlagRaises(combined)
  /\ Raise("AttributeError")
  /\ UNCHANGED << idx, keywords, today, jobLocals, waits, reqs, df, data_frames,
                  warnings, results >>

\* clean_and_filter raises at lines 200-201, after the liveness selection
FilterKeywordRaises ==
  /\ pc = "filter"
  /\ ~FlagRaises(combined)
  /\ KeywordRaises(combined, keywords)
  /\ classified' = ClassifiedFrame(combined)
  /\ live' = LiveFrame(combined, today)
  /\ Raise("AttributeError")
  /\ UNCHANGED << idx, keywords, today, jobLocals, waits, reqs, df, data_frames,
                  warnings, combined, filtered >>

\* filtered_df = clean_and_filter(combined, keywords)
Filter ==
  /\ pc = "filter"
  /\ ~FlagRaises(combined)
  /\ ~KeywordRaises(combined, keywords)
  /\ classified' = ClassifiedFrame(combined)
  /\ live' = LiveFrame(combined, today)
  /\ filtered' = clean_and_filter(combined, keywords, today)
  /\ pc' = "done"
  /\ UNCHANGED << idx, keywords, today, jobLocals, waits, reqs, df, data_frames,
                  warnings, error, combined >>

Next ==
  \/ Submit \/ SubmitHttpError \/ SubmitMissingJobId \/ SubmitOk
  \/ PollSend \/ PollHttpError \/ PollFinished \/ PollFailed \/ PollRetry
  \/ DownloadSend \/ DownloadHttpError \/ Extract
  \/ WarnEmpty \/ AppendFrame \/ NoData \/ Combine
  \/ FilterFlagRaises \/ FilterKeywordRaises \/ Filter

Spec == Init /\ [][Next]_vars

\* the run as the last group's fetch starts, the two groups before it having
\* delivered archives without a CSV entry after one poll each
LastGroupInit ==
  /\ pc = "submit"
  /\ idx = total_types
  /\ keywords = ParseKeywords(<<"a","l">>)
  /\ today = Now
  /\ resp = NoResp
  /\ job_id = None
  /\ delay = 0
  /\ polls = 0
  /\ download_url = None
  /\ waits = <<>>
  /\ reqs = << Req("submit", type_filters[total_types - 1].codes, None, None),
               Req("status", <<>>, JobIds[total_types - 1], None),
               Req("download", <<>>, None, "u1") >>
  /\ df = <<>>
  /\ data_frames = <<>>
  /\ warnings = [i \in 1..(total_types - 1) |-> type_filters[i].atype]
  /\ error = None
  /\ combined = <<>>
  /\ classified = <<>>
  /\ live = <<>>
  /\ filtered = <<>>

\* the script is sequential and blocking: whenever it has a next step it takes it
FairSpec == LastGroupInit /\ [][Next]_vars /\ WF_vars(Next)

\* ------------------------------------------------------------------------
\*  clean_and_filter on its own: the frames it is applied to are drawn in
\*  the initial state
\* ------------------------------------------------------------------------
\* every one-row frame over the cell domains, under any group tag
OneRowFrames ==
  { << [ix |-> 0, award_type |-> g,
        award_or_idv_flag |-> fl, award_id_piid |-> pi, award_id_fain |-> fa,
        period_of_performance_potential_end_date |-> pot,
        period_of_performance_current_end_date |-> cur,
        ordering_period_end_date |-> ord,
        prime_award_base_transaction_description |-> de] >> :
      g \in GroupNames, fl \in Flags, pi \in Piids, fa \in Fains,
      pot \in DateCells, cur \in DateCells, ord \in DateCells, de \in Descs }

\* the frames of 2..MaxRows pool rows, as one group delivers them
ManyRowFrames ==
  UNION { { Concat(<< TagRows(ReadCsv(rows), g) >>) :
              rows \in [1..n -> PoolRows], g \in GroupNames } : n \in 2..MaxRows }

CFInit ==
  /\ pc = "filter"
  /\ idx = total_types
  /\ keywords \in { ParseKeywords(t) : t \in KeywordInputs }
  /\ today = Now
  /\ combined \in OneRowFrames \cup ManyRowFrames
  /\ resp = NoResp
  /\ job_id = None
  /\ delay = 0
  /\ polls = 0
  /\ download_url = None
  /\ waits = <<>>
  /\ reqs = <<>>
  /\ df = <<>>
  /\ data_frames = <<>>
  /\ warnings = <<>>
  /\ error = None
  /\ classified = <<>>
  /\ live = <<>>
  /\ filtered = <<>>

CFNext == FilterFlagRaises \/ FilterKeywordRaises \/ Filter

CFSpec == CFInit /\ [][CFNext]_vars

\* ------------------------------------------------------------------------
\*  Properties
\* ------------------------------------------------------------------------
NonEmpty(v) == v \notin {None, ""}

Last(seq) == seq[Len(seq)]

\* a status response that is 'finished' and carries a URL in url or file_url
FinishedWithUrl(r) ==
  r.http_ok /\ r.status = "finished" /\ (NonEmpty(r.url) \/ NonEmpty(r.file_url))

\* the URL such a response resolves to
ThatUrl(r) == IF NonEmpty(r.url) THEN r.url ELSE r.file_url

\* an observation that ends the poll loop
TerminalObs(r) == (~r.http_ok) \/ r.status = "failed" \/ FinishedWithUrl(r)

InLoop(p) == p \in {"poll", "got_status"}

\* the script holds a response that is a fetch failure
ErrorSeen ==
  \/ pc \in {"submitted", "got_status", "downloaded"} /\ ~resp.http_ok
  \/ pc = "submitted" /\ resp.http_ok /\ ~NonEmpty(resp.file_name)
  \/ pc = "got_status" /\ resp.http_ok /\ resp.status = "failed"

EqIgnoreCase(a, b) ==
  Len(a) = Len(b) /\ \A i \in 1..Len(a) : LowerChar(a[i]) = LowerChar(b[i])

\* C1: when the fetch of a group fails (HTTP error on submit, poll or
\* download, missing job id, job status 'failed'), the failed group yields no
\* data and the orchestrator goes on to the next group: the run is not aborted.
C1_FetchFailureIsPerGroup ==
  [][ ErrorSeen => /\ pc' \in {"submit", "combine"}
                   /\ data_frames' = data_frames ]_vars

\* C2: a poll that is 'finished' with a resolvable URL ends the loop with
\* exactly that URL; the only request issued afterwards for the job is the
\* download of that URL, and the status endpoint is not queried again.
C2_FinishedEndsPolling ==
  [][ /\ (pc = "got_status" /\ FinishedWithUrl(resp))
          => (pc' = "download" /\ download_url' = ThatUrl(resp) /\ reqs' = reqs)
      /\ pc = "download"
          => /\ pc' = "downloaded"
             /\ download_url' = download_url
             /\ reqs' = Append(reqs, Req("download", <<>>, None, download_url))
      /\ pc \in {"downloaded", "returned"} => reqs' = reqs ]_vars

C2_Witness ==
  /\ pc = "downloaded"
  /\ polls >= 3
  /\ download_url = "u2"
  /\ Last(reqs) = Req("download", <<>>, None, "u2")
  /\ reqs[Len(reqs) - 1].kind = "status"

\* C3: a poll that returns 'failed' (every earlier poll of the job was
\* non-terminal) makes the fetcher report a job failure; no download request
\* is made and no records are returned for the job.
C3_FailedJobIsReported ==
  /\ [][ (pc = "got_status" /\ resp.http_ok /\ resp.status = "failed")
           => /\ error' = "JobFailed"
              /\ pc' = "aborted"
              /\ reqs' = reqs
              /\ df' = df
              /\ data_frames' = data_frames ]_vars
  /\ [](error = "JobFailed"
          => /\ \A i \in 1..Len(reqs) : reqs[i].kind # "download"
             /\ Len(data_frames) + Len(warnings) = idx - 1)

C3_Witness ==
  /\ error = "JobFailed"
  /\ polls >= 3
  /\ idx = 2
  /\ Len(data_frames) = 1

\* C4: the k-th wait of a job is min(2^(k-1), 30): 1, 2, 4, 8, 16, 30, 30, ...;
\* the delay is 1 when a job's polling starts, never decreases within a job
\* and never exceeds 30.
C4_BackoffSequence ==
  /\ [](/\ \A k \in 1..Len(waits) :
             waits[k] = (IF 2^(k - 1) < 30 THEN 2^(k - 1) ELSE 30)
        /\ InLoop(pc) => delay \in 1..30
        /\ (pc = "poll" /\ polls = 0) => (delay = 1 /\ waits = <<>>))
  /\ [][ (InLoop(pc) /\ InLoop(pc')) => delay' >= delay ]_vars

C4_Witness ==
  /\ Len(waits) >= 7
  /\ waits[5] = 16
  /\ waits[6] = 30
  /\ waits[7] = 30

\* the raw end-date cell that is relevant for an award type
RelevantCell(row, ty) ==
  IF ty = "contract" THEN row.period_of_performance_potential_end_date
  ELSE IF ty = "grant" THEN row.period_of_performance_current_end_date
  ELSE row.ordering_period_end_date

\* the cell holds a date, and it is strictly later than now
StrictlyLater(cell, now) ==
  /\ cell.k \in {"date", "datetime"}
  /\ LET t == IF cell.k = "datetime" THEN cell.tod ELSE 0
     IN cell.day > now.day \/ (cell.day = now.day /\ t > now.tod)

\* C5: every record of the result has a type-relevant end date (potential
\* for contract, current for grant, ordering-period for contract_idv) that is
\* present and strictly later than the timestamp captured at run start,
\* whatever its other two date fields hold.
C5_ResultIsLive ==
  pc = "done" =>
    \A i \in 1..Len(filtered) :
       LET r == filtered[i]
           src == combined[r.ix + 1]
       IN /\ r.award_type \in GroupNames
          /\ StrictlyLater(RelevantCell(src, r.award_type), today)

C5_Witness ==
  /\ pc = "done"
  /\ \E i \in 1..Len(filtered) :
        LET src == combined[filtered[i].ix + 1]
        IN /\ filtered[i].award_type = "grant"
           /\ src.period_of_performance_current_end_date = DateText(2)
           /\ src.period_of_performance_potential_end_date = DateTimeText(1, 1)
           /\ src.ordering_period_end_date = GarbageDate

\* the award type the classification rule gives for a flag and an id
ExpectedType(flag, piid) ==
  IF (~flag.na) /\ EqIgnoreCase(flag.s, <<"I","D","V">>) /\ ~piid.na
  THEN "contract_idv"
  ELSE IF (~flag.na) /\ EqIgnoreCase(flag.s, <<"A","W","A","R","D">>) /\ ~piid.na
  THEN "contract"
  ELSE "grant"

\* C6: the award_type of every record is decided by the IDV flag (compared
\* without regard to case) and the presence of the contract-instrument id:
\* IDV with id gives contract_idv, AWARD with id gives contract, everything
\* else grant (a record without a flag included); the group name the record
\* was tagged with plays no part.
C6_ClassificationRule ==
  [][ pc = "filter"
        => /\ Len(classified') = Len(combined)
           /\ \A i \in 1..Len(combined) :
                 classified'[i].award_type =
                   ExpectedType(combined[i].award_or_idv_flag,
                                combined[i].award_id_piid) ]_vars

\* what remains of the rule: it holds of every frame in which at least one
\* record carries a flag, the frames for which line 168 does not raise
ClassificationWhenFlagColumnIsText ==
  (pc \in {"done", "aborted"} /\ classified # <<>>) =>
    /\ Len(classified) = Len(combined)
    /\ \A i \in 1..Len(combined) :
          classified[i].award_type =
            ExpectedType(combined[i].award_or_idv_flag, combined[i].award_id_piid)
    /\ \A i \in 1..Len(filtered) :
          LET src == combined[filtered[i].ix + 1]
          IN filtered[i].award_type =
               ExpectedType(src.award_or_idv_flag, src.award_id_piid)

\* no entry of the archive has a name ending in ".csv", case disregarded
NoCsvEntry(archive) ==
  \A i \in 1..Len(archive) :
     LET name == archive[i].name
     IN ~(/\ Len(name) >= 4
          /\ EqIgnoreCase(SubSeq(name, Len(name) - 3, Len(name)),
                          <<".", "c", "s", "v">>))

\* C7: an archive without a CSV entry gives an empty frame and no error; the
\* orchestrator records a warning for the group, adds no records for it and
\* goes on to the next group.
C7_NoCsvIsEmptyNotError ==
  [][ /\ (pc = "downloaded" /\ resp.http_ok /\ NoCsvEntry(resp.archive))
          => (pc' = "returned" /\ df' = <<>> /\ error' = None)
      /\ (pc = "returned" /\ NoCsvEntry(resp.archive))
          => /\ warnings' = Append(warnings, type_filters[idx].atype)
             /\ data_frames' = data_frames
             /\ error' = None
             /\ pc' = (IF idx < 3 THEN "submit" ELSE "combine")
             /\ idx < 3 => idx' = idx + 1 ]_vars

C7_Witness ==
  /\ pc = "submit"
  /\ idx = 2
  /\ warnings = <<"contract">>
  /\ data_frames = <<>>
  /\ resp.archive # <<>>
  /\ NoCsvEntry(resp.archive)

\* the description holds one of the keywords as a literal substring, case
\* disregarded
HasKeyword(cell, kws) ==
  /\ ~cell.na
  /\ \E k \in 1..Len(kws) :
        \E off \in 0..(Len(cell.s) - Len(kws[k])) :
           EqIgnoreCase(SubSeq(cell.s, off + 1, off + Len(kws[k])), kws[k])

IxOf(frame) == [i \in 1..Len(frame) |-> frame[i].ix]

\* C8: with a non-empty keyword list the result is the records of the
\* liveness filter's output whose description contains a keyword as a
\* case-insensitive literal substring (a missing description never does);
\* with an empty list it is the liveness filter's output.  When the call ends
\* in an exception there is no result, and no record of the liveness output
\* (if the call got that far) would have survived.
C8_KeywordFilterAfterLiveness ==
  (pc = "done" \/ (pc = "aborted" /\ error = "AttributeError")) =>
    LET keep(r) ==
          keywords = <<>>
            \/ HasKeyword(r.prime_award_base_transaction_description, keywords)
    IN IxOf(filtered) = IxOf(SelectSeq(live, keep))

C8_Witness ==
  /\ pc = "done"
  /\ keywords # <<>>
  /\ Len(live) = 2
  /\ Len(filtered) = 1
  /\ filtered[1].prime_award_base_transaction_description = Str(<<"A","l","p">>)

\* C9: the poll loop is left only on a terminal observation ('failed',
\* 'finished' with a resolvable URL, or a non-success HTTP status) and then
\* the fetcher terminates; any other observation, 'finished' without a URL
\* included, is followed by a wait and another poll, however many polls came
\* before.
C9_PollUntilTerminal ==
  /\ [][ (InLoop(pc) /\ ~InLoop(pc'))
           => (pc = "got_status" /\ TerminalObs(resp)) ]_vars
  /\ [][ (pc = "got_status" /\ ~TerminalObs(resp))
           => /\ pc' = "poll"
              /\ Len(waits) < MaxPolls => waits' = Append(waits, delay) ]_vars
  /\ (pc = "got_status" /\ TerminalObs(resp)) ~> (pc \in {"download", "aborted"})
  /\ (pc = "got_status" /\ ~TerminalObs(resp)) ~> (pc = "poll")
  /\ (pc = "poll") ~> (pc = "got_status")

C9_Witness ==
  /\ pc = "got_status"
  /\ polls = MaxPolls
  /\ Len(waits) = MaxPolls
  /\ resp.http_ok
  /\ resp.status = "finished"
  /\ ~TerminalObs(resp)

\* C10: once a fetch has hit a non-success HTTP status, a submit response
\* without a job id or a 'failed' job status, no further request is issued;
\* after a missing job id the status endpoint has never been polled.
C10_ErrorsAreNotRetried ==
  /\ [][ /\ ErrorSeen => (reqs' = reqs /\ pc' = "aborted" /\ error' # None)
         /\ error # None => reqs' = reqs ]_vars
  /\ [](error = "MissingJobId" => \A i \in 1..Len(reqs) : reqs[i].kind # "status")

C10_Witness ==
  /\ error = "HTTPError"
  /\ pc = "aborted"
  /\ polls >= 2
  /\ Last(reqs).kind = "status"

====
